---- MODULE Spec2Model ----
(***************************************************************************)
(* Model of the SKAL integration-test harness (integration-tests.py).      *)
(*                                                                         *)
(* One primary control flow (the main thread) runs the module top to       *)
(* bottom: four calls of runTest, then the leak scan and the verdict.      *)
(* Three things run beside it: the child processes it spawned, the         *)
(* threading.Timer of the scenario in progress, and whoever sends SIGINT   *)
(* or SIGTERM to the harness.                                              *)
(*                                                                         *)
(* CPython runs a Python-level signal handler in the main thread, before   *)
(* the next instruction of the interrupted code; sigtermHandler never      *)
(* returns (it ends in sys.exit(1), or in the error terminateAll raised),  *)
(* and no frame of the module catches anything. So the arrival of a signal *)
(* is modelled as one step that abandons the interrupted frame and puts    *)
(* the main thread at the first line of the handler's terminateAll.        *)
(* threading.Timer threads are not daemon threads: after the main thread   *)
(* has ended, the interpreter waits for a started timer, which then fires. *)
(***************************************************************************)
EXTENDS Integers, Sequences, FiniteSets, TLC

VARIABLES
    pc,          \* position of the main thread
    k,           \* number of runTest calls entered so far (the current scenario)
    bi,          \* body: index in SpawnOrder of the role being started
    ti,          \* index of the dict item a for loop is at
    hdepth,      \* number of sigtermHandler frames entered so far
    proc,        \* dict proc: the registered role names, in insertion order
    child,       \* per role: the process most recently created for it
    sinkOf,      \* per role: which opening of its log file the process writes to
    outputFiles, \* dict outputFiles: per basename "none" | "open" | "closed"
    outputPaths, \* dict outputPaths: the basenames, in insertion order
    opens,       \* per basename: number of open(path, 'w') calls so far
    content,     \* per basename: the file holds the leak marker
    timer,       \* per scenario: "none" | "started" | "cancelled" | "fired"
    results,     \* list results
    returned,    \* the values the bodies run so far have returned, in order
    success,     \* runTest's local success
    memoryLeak,
    failCount,
    verdict,     \* "none" | "PASS" | "FAIL_TESTS" | "FAIL_LEAKS"
    exitCode,    \* -1 while running, then the exit status
    raised,      \* the exception that ended the main thread, or "none"
    sigs,        \* external signals delivered so far
    steps,       \* the runTest steps done in the current scenario, in order
    termed,      \* roles sent terminate() in the terminateAll call in progress
    handled,     \* roles whose process a completed terminateAll call covered
    reent,       \* a handler was entered while a terminateAll call was in progress
    waitStatus   \* the exit status wait() returned in the scenario in progress, else -1

vars == <<pc, k, bi, ti, hdepth, proc, child, sinkOf, outputFiles, outputPaths,
          opens, content, timer, results, returned, success, memoryLeak, failCount,
          verdict, exitCode, raised, sigs, steps, termed, handled, reent, waitStatus>>

\* External SIGINT/SIGTERM deliveries considered in one run.
MaxSignals == 1

\* The four runTest calls of the module.
NumScenarios == 4

Scenarios == 1..NumScenarios

Description ==
    <<"Send one message through SKALD",
      "Send five messages through SKALD",
      "Send one message to a multicast group",
      "Send five messages to a multicast group">>

\* startSkaldReaderWriter starts the three roles in this order.
SpawnOrder == <<"skald", "reader", "writer">>

Role == {"skald", "reader", "writer"}

\* The exit statuses a child is seen to end with: clean, or not.
ExitStatuses == {0, 1}

\* The role every body waits on.
Awaited == "reader"

\* os.path.basename(os.path.join(".", name)) of the executable of a role.
Basename(r) == r

Base == {Basename(r) : r \in Role}


Keys(s) == {s[i] : i \in 1..Len(s)}

\* d[key] = value on a dict kept as its keys in insertion order.
DictSet(d, key) == IF key \in Keys(d) THEN d ELSE Append(d, key)

\* Faulty variant: the entry stays in the dict.
DictKeep(d, key) == d

\* del d[key]
DictDel(d, key) == SelectSeq(d, LAMBDA x : x # key)

NewChild == [alive |-> TRUE, spawned |-> TRUE, termReq |-> 0, killReq |-> 0]

NoChild == [alive |-> FALSE, spawned |-> FALSE, termReq |-> 0, killReq |-> 0]

TimerAlive == \E j \in Scenarios : timer[j] = "started"

TypeOK ==
    /\ pc \in {"call", "rt_clear", "rt_start", "rt_body", "sp", "reg", "wait",
               "del", "ret", "rt_cancel", "ta_term", "ta_kill", "rt_append",
               "h_exit", "ag_close", "ag_scan", "ag_count", "ag_verdict",
               "shutdown", "exited"}
    /\ k \in 0..NumScenarios
    /\ bi \in 1..Len(SpawnOrder)
    /\ ti \in 1..(Len(SpawnOrder) + 1)
    /\ hdepth \in 0..(MaxSignals + 1)
    /\ Keys(proc) \subseteq Role
    /\ child \in [Role -> [alive : BOOLEAN, spawned : BOOLEAN,
                           termReq : 0..(MaxSignals + 2),
                           killReq : 0..(MaxSignals + 2)]]
    /\ sinkOf \in [Role -> Nat]
    /\ outputFiles \in [Base -> {"none", "open", "closed"}]
    /\ Keys(outputPaths) \subseteq Base
    /\ opens \in [Base -> Nat]
    /\ content \in [Base -> BOOLEAN]
    /\ timer \in [Scenarios -> {"none", "started", "cancelled", "fired"}]
    /\ Len(results) <= NumScenarios
    /\ returned \in Seq(BOOLEAN) /\ Len(returned) <= NumScenarios
    /\ success \in BOOLEAN
    /\ memoryLeak \in BOOLEAN
    /\ failCount \in 0..NumScenarios
    /\ verdict \in {"none", "PASS", "FAIL_TESTS", "FAIL_LEAKS"}
    /\ exitCode \in {-1, 0, 1}
    /\ raised \in {"none", "SystemExit", "SpawnError", "TerminationError",
                  "KeyError"}
    /\ sigs \in 0..MaxSignals
    /\ termed \subseteq Role
    /\ handled \subseteq Role
    /\ reent \in BOOLEAN
    /\ waitStatus \in ExitStatuses \cup {-1}

\* The state once the module has run down to its first runTest call: handlers
\* installed, every dict and list empty.
Init ==
    /\ pc = "call"
    /\ k = 0
    /\ bi = 1
    /\ ti = 1
    /\ hdepth = 0
    /\ proc = <<>>
    /\ child = [r \in Role |-> NoChild]
    /\ sinkOf = [r \in Role |-> 0]
    /\ outputFiles = [b \in Base |-> "none"]
    /\ outputPaths = <<>>
    /\ opens = [b \in Base |-> 0]
    /\ content = [b \in Base |-> FALSE]
    /\ timer = [j \in Scenarios |-> "none"]
    /\ results = <<>>
    /\ returned = <<>>
    /\ success = FALSE
    /\ memoryLeak = FALSE
    /\ failCount = 0
    /\ verdict = "none"
    /\ exitCode = -1
    /\ raised = "none"
    /\ sigs = 0
    /\ steps = <<>>
    /\ termed = {}
    /\ handled = {}
    /\ reent = FALSE
    /\ waitStatus = -1

----
\* Faulty variant: an uncaught exception leaves the run with exit status 0.
EndMainClean(exc) ==
    /\ raised' = IF raised = "none" THEN exc ELSE raised
    /\ exitCode' = IF exitCode = -1 THEN 0 ELSE exitCode
    /\ pc' = IF TimerAlive THEN "shutdown" ELSE "exited"

\* The main thread ends with an exception nothing catches (SystemExit
\* included): exit status 1, after the interpreter has waited for a started timer.
EndMain(exc) ==
    /\ raised' = IF raised = "none" THEN exc ELSE raised
    /\ exitCode' = IF exitCode = -1 THEN 1 ELSE exitCode
    /\ pc' = IF TimerAlive THEN "shutdown" ELSE "exited"

\* sigtermHandler is entered: the interrupted frame is abandoned (with it the
\* scenario in progress) and the main thread is at the first line of the
\* handler's terminateAll.
EnterHandler ==
    /\ reent' = (reent \/ pc \in {"ta_term", "ta_kill"})
    /\ waitStatus' = -1
    /\ hdepth' = hdepth + 1
    /\ pc' = "ta_term"
    /\ ti' = 1
    /\ termed' = {}

\* runTest is called and creates its timer.
RunTestEntry ==
    /\ pc = "call"
    /\ k < NumScenarios
    /\ k' = k + 1
    /\ steps' = <<>>
    /\ pc' = "rt_clear"
    /\ UNCHANGED <<waitStatus, reent, bi, ti, hdepth, proc, child, sinkOf, outputFiles, outputPaths,
                   opens, content, timer, results, returned, success, memoryLeak,
                   failCount, verdict, exitCode, raised, sigs, termed, handled>>

\* proc.clear()
RtClear ==
    /\ pc = "rt_clear"
    /\ proc' = <<>>
    /\ steps' = Append(steps, "clear")
    /\ pc' = "rt_start"
    /\ UNCHANGED <<waitStatus, reent, k, bi, ti, hdepth, child, sinkOf, outputFiles, outputPaths,
                   opens, content, timer, results, returned, success, memoryLeak,
                   failCount, verdict, exitCode, raised, sigs, termed, handled>>

\* timer.start()
RtStart ==
    /\ pc = "rt_start"
    /\ timer' = [timer EXCEPT ![k] = "started"]
    /\ steps' = Append(steps, "arm")
    /\ pc' = "rt_body"
    /\ UNCHANGED <<waitStatus, reent, k, bi, ti, hdepth, proc, child, sinkOf, outputFiles,
                   outputPaths, opens, content, results, returned, success,
                   memoryLeak, failCount, verdict, exitCode, raised, sigs,
                   termed, handled>>

\* body() is called.
RtBody ==
    /\ pc = "rt_body"
    /\ steps' = Append(steps, "body")
    /\ bi' = 1
    /\ pc' = "sp"
    /\ UNCHANGED <<waitStatus, reent, k, ti, hdepth, proc, child, sinkOf, outputFiles, outputPaths,
                   opens, content, timer, results, returned, success, memoryLeak,
                   failCount, verdict, exitCode, raised, sigs, termed, handled>>

\* Faulty variant: the file is opened again at every spawn.
NeedOpenAlways(b) == TRUE

\* outputFiles.get(procname) is None
NeedOpen(b) == outputFiles[b] = "none"

\* spawn, up to Popen: the log file of the basename is opened for writing
\* (and so truncated) when the dict holds none.
OpenSink(b) ==
    IF NeedOpen(b)
    THEN /\ outputPaths' = DictSet(outputPaths, b)
         /\ outputFiles' = [outputFiles EXCEPT ![b] = "open"]
         /\ opens' = [opens EXCEPT ![b] = @ + 1]
         /\ content' = [content EXCEPT ![b] = FALSE]
    ELSE UNCHANGED <<outputPaths, outputFiles, opens, content>>

\* spawn(...) returns a new process writing to outputFiles[procname].
Spawn ==
    /\ pc = "sp"
    /\ LET r == SpawnOrder[bi] IN
        /\ OpenSink(Basename(r))
        /\ child' = [child EXCEPT ![r] = NewChild]
        /\ sinkOf' = [sinkOf EXCEPT ![r] = opens'[Basename(r)]]
        /\ handled' = handled \ {r}
    /\ pc' = "reg"
    /\ UNCHANGED <<waitStatus, reent, k, bi, ti, hdepth, proc, timer, results, returned, success,
                   memoryLeak, failCount, verdict, exitCode, raised, sigs,
                   steps, termed>>

\* subprocess.Popen raises OSError: nothing catches it.
SpawnFails ==
    /\ pc = "sp"
    /\ OpenSink(Basename(SpawnOrder[bi]))
    /\ EndMain("SpawnError")
    /\ UNCHANGED <<waitStatus, reent, k, bi, ti, hdepth, proc, child, sinkOf, timer, results, returned,
                   success, memoryLeak, failCount, verdict, sigs, steps, termed,
                   handled>>

\* proc[role] = <the process that spawn gave back>
Register ==
    /\ pc = "reg"
    /\ proc' = DictSet(proc, SpawnOrder[bi])
    /\ IF bi < Len(SpawnOrder)
       THEN bi' = bi + 1 /\ pc' = "sp"
       ELSE bi' = bi /\ pc' = "wait"
    /\ UNCHANGED <<waitStatus, reent, k, ti, hdepth, child, sinkOf, outputFiles, outputPaths,
                   opens, content, timer, results, returned, success, memoryLeak,
                   failCount, verdict, exitCode, raised, sigs, steps, termed,
                   handled>>

\* proc['reader'].wait() returns once the process has exited; the status it
\* returns is not kept.
Wait ==
    /\ pc = "wait"
    /\ Awaited \in Keys(proc)
    /\ ~child[Awaited].alive
    /\ \E st \in ExitStatuses : waitStatus' = st
    /\ pc' = "del"
    /\ UNCHANGED <<reent, k, bi, ti, hdepth, proc, child, sinkOf, outputFiles,
                   outputPaths, opens, content, timer, results, returned, success,
                   memoryLeak, failCount, verdict, exitCode, raised, sigs,
                   steps, termed, handled>>

\* proc['reader'] evaluated by a body when the registry holds no reader, before
\* the reader is registered or after its entry was deleted: the lookup raises
\* KeyError, which nothing catches.
WaitUnknown ==
    /\ pc \in {"sp", "ret"}
    /\ Awaited \notin Keys(proc)
    /\ EndMain("KeyError")
    /\ UNCHANGED <<waitStatus, reent, k, bi, ti, hdepth, proc, child, sinkOf,
                   outputFiles, outputPaths, opens, content, timer, results,
                   returned, success, memoryLeak, failCount, verdict, sigs,
                   steps, termed, handled>>

\* del(proc['reader'])
Del ==
    /\ pc = "del"
    /\ proc' = DictDel(proc, Awaited)
    /\ pc' = "ret"
    /\ UNCHANGED <<waitStatus, reent, k, bi, ti, hdepth, child, sinkOf, outputFiles, outputPaths,
                   opens, content, timer, results, returned, success, memoryLeak,
                   failCount, verdict, exitCode, raised, sigs, steps, termed,
                   handled>>

\* Faulty variant: terminateAll() directly after the body, the timer left running.
AfterBodySkipCancel == "ta_term"

\* What runTest does once body() has returned: timer.cancel().
AfterBody == "rt_cancel"

\* success = body(), the body returning v.
BodyReturns(v) ==
    /\ pc = "ret"
    /\ success' = v
    /\ returned' = Append(returned, v)
    /\ IF AfterBody = "rt_cancel"
       THEN pc' = "rt_cancel" /\ UNCHANGED <<ti, termed>>
       ELSE pc' = "ta_term" /\ ti' = 1 /\ termed' = {}
    /\ UNCHANGED <<waitStatus, reent, k, bi, hdepth, proc, child, sinkOf, outputFiles, outputPaths,
                   opens, content, timer, results, memoryLeak, failCount,
                   verdict, exitCode, raised, sigs, steps, handled>>

\* Every body of the module ends in "return True".
Return == BodyReturns(TRUE)

\* runTest driven with a body of either outcome.
ReturnAny == \E v \in BOOLEAN : BodyReturns(v)

\* Faulty variant: cancel() leaves the timer as it is.
CancelNoop(t) == t

\* Timer.cancel(): a started timer will not run its function; any other timer
\* is left as it is.
Cancelled(t) == IF t = "started" THEN "cancelled" ELSE t

\* timer.cancel(), then terminateAll() is called.
RtCancel ==
    /\ pc = "rt_cancel"
    /\ timer' = [timer EXCEPT ![k] = Cancelled(@)]
    /\ steps' = Append(steps, "cancel")
    /\ pc' = "ta_term"
    /\ ti' = 1
    /\ termed' = {}
    /\ UNCHANGED <<waitStatus, reent, k, bi, hdepth, proc, child, sinkOf, outputFiles, outputPaths,
                   opens, content, results, returned, success, memoryLeak, failCount,
                   verdict, exitCode, raised, sigs, handled>>

----
\* terminateAll, run by runTest (hdepth = 0) or by sigtermHandler.

\* Loop 1: process.terminate() on the next item of proc.
TaTerminate ==
    /\ pc = "ta_term"
    /\ ti <= Len(proc)
    /\ child' = [child EXCEPT ![proc[ti]].termReq = @ + 1]
    /\ termed' = termed \cup {proc[ti]}
    /\ ti' = ti + 1
    /\ UNCHANGED <<waitStatus, reent, pc, k, bi, hdepth, proc, sinkOf, outputFiles, outputPaths,
                   opens, content, timer, results, returned, success, memoryLeak,
                   failCount, verdict, exitCode, raised, sigs, steps, handled>>

\* process.terminate() raises OSError (the OS refuses the signal): terminateAll
\* has no try, so the error leaves it and ends the main thread.
TaTerminateFails ==
    /\ pc = "ta_term"
    /\ ti <= Len(proc)
    /\ EndMain("TerminationError")
    /\ UNCHANGED <<waitStatus, reent, k, bi, ti, hdepth, proc, child, sinkOf, outputFiles,
                   outputPaths, opens, content, timer, results, returned, success,
                   memoryLeak, failCount, verdict, sigs, steps, termed, handled>>

\* time.sleep(0.2), once loop 1 has visited every item.
TaSleep ==
    /\ pc = "ta_term"
    /\ ti > Len(proc)
    /\ pc' = "ta_kill"
    /\ ti' = 1
    /\ UNCHANGED <<waitStatus, reent, k, bi, hdepth, proc, child, sinkOf, outputFiles, outputPaths,
                   opens, content, timer, results, returned, success, memoryLeak,
                   failCount, verdict, exitCode, raised, sigs, steps, termed,
                   handled>>

\* Faulty variant: kill() without looking at poll().
PollAlways(r) == TRUE

\* process.poll() is None
PollAlive(r) == child[r].alive

\* Loop 2: the next item of proc is polled, and killed when still alive
\* (SIGKILL cannot be caught: the process is gone).
TaKill ==
    /\ pc = "ta_kill"
    /\ ti <= Len(proc)
    /\ child' = IF PollAlive(proc[ti])
                THEN [child EXCEPT ![proc[ti]].killReq = @ + 1,
                                   ![proc[ti]].alive = FALSE]
                ELSE child
    /\ ti' = ti + 1
    /\ UNCHANGED <<waitStatus, reent, pc, k, bi, hdepth, proc, sinkOf, outputFiles, outputPaths,
                   opens, content, timer, results, returned, success, memoryLeak,
                   failCount, verdict, exitCode, raised, sigs, steps, termed,
                   handled>>

\* process.kill() raises OSError.
TaKillFails ==
    /\ pc = "ta_kill"
    /\ ti <= Len(proc)
    /\ PollAlive(proc[ti])
    /\ EndMain("TerminationError")
    /\ UNCHANGED <<waitStatus, reent, k, bi, ti, hdepth, proc, child, sinkOf, outputFiles,
                   outputPaths, opens, content, timer, results, returned, success,
                   memoryLeak, failCount, verdict, sigs, steps, termed, handled>>

\* Faulty variant: terminateAll without its final proc.clear().
ProcKept == proc

\* proc after the proc.clear() that ends terminateAll.
ProcAfterTerminateAll == <<>>

\* proc.clear(), and terminateAll returns to its caller.
TaClear ==
    /\ pc = "ta_kill"
    /\ ti > Len(proc)
    /\ handled' = handled \cup Keys(proc)
    /\ proc' = ProcAfterTerminateAll
    /\ IF hdepth = 0
       THEN pc' = "rt_append" /\ steps' = Append(steps, "terminateAll")
       ELSE pc' = "h_exit" /\ steps' = steps
    /\ UNCHANGED <<waitStatus, reent, k, bi, ti, hdepth, child, sinkOf, outputFiles, outputPaths,
                   opens, content, timer, results, returned, success, memoryLeak,
                   failCount, verdict, exitCode, raised, sigs, termed>>

\* Faulty variant: results.insert(0, ...).
RecordedFirst(rs, d, s) == <<<<d, s>>>> \o rs

\* results.append((description, success))
Recorded(rs, d, s) == Append(rs, <<d, s>>)

\* The last line of runTest; the module goes on to the next runTest call or,
\* after the fourth, to "memoryLeak = False" and the closing loop.
RtAppend ==
    /\ pc = "rt_append"
    /\ results' = Recorded(results, Description[k], success)
    /\ steps' = Append(steps, "append")
    /\ waitStatus' = -1
    /\ IF k < NumScenarios
       THEN pc' = "call" /\ UNCHANGED <<ti, memoryLeak>>
       ELSE pc' = "ag_close" /\ ti' = 1 /\ memoryLeak' = FALSE
    /\ UNCHANGED <<reent, k, bi, hdepth, proc, child, sinkOf, outputFiles, outputPaths,
                   opens, content, timer, returned, success, failCount, verdict,
                   exitCode, raised, sigs, termed, handled>>

----
\* The abnormal path.

\* Faulty variant: sys.exit(0) in the handler.
HandlerStatusZero == 1 - 1

\* The argument of the handler's sys.exit.
HandlerStatus == 1

\* sys.exit(1) in sigtermHandler
HExit ==
    /\ pc = "h_exit"
    /\ raised' = IF raised = "none" THEN "SystemExit" ELSE raised
    /\ exitCode' = IF exitCode = -1 THEN HandlerStatus ELSE exitCode
    /\ pc' = IF TimerAlive THEN "shutdown" ELSE "exited"
    /\ UNCHANGED <<waitStatus, reent, k, bi, ti, hdepth, proc, child, sinkOf, outputFiles,
                   outputPaths, opens, content, timer, results, returned, success,
                   memoryLeak, failCount, verdict, sigs, steps, termed, handled>>

\* SIGINT or SIGTERM reaches the harness from outside.
Signal ==
    /\ pc # "exited"
    /\ sigs < MaxSignals
    /\ sigs' = sigs + 1
    /\ EnterHandler
    /\ UNCHANGED <<k, bi, proc, child, sinkOf, outputFiles, outputPaths, opens,
                   content, timer, results, returned, success, memoryLeak, failCount,
                   verdict, exitCode, raised, steps, handled>>

\* Faulty variant: timeout() calls sys.exit(), which ends the timer thread only.
TimerThreadExitsAlone == UNCHANGED <<waitStatus, reent, hdepth, pc, ti, termed>>

\* os.kill(os.getpid(), signal.SIGTERM)
KillSelf == EnterHandler

\* The delay of a started timer has passed: its thread runs timeout().
Timeout ==
    /\ pc # "exited"
    /\ \E j \in Scenarios :
        /\ timer[j] = "started"
        /\ timer' = [timer EXCEPT ![j] = "fired"]
    /\ KillSelf
    /\ UNCHANGED <<k, bi, proc, child, sinkOf, outputFiles, outputPaths, opens,
                   content, results, returned, success, memoryLeak, failCount,
                   verdict, exitCode, raised, sigs, steps, handled>>

----
\* The child processes.

\* A process exits, by itself or on the SIGTERM it got.
ChildExit(r) ==
    /\ pc # "exited"
    /\ child[r].alive
    /\ child' = [child EXCEPT ![r].alive = FALSE]
    /\ UNCHANGED <<waitStatus, reent, pc, k, bi, ti, hdepth, proc, sinkOf, outputFiles, outputPaths,
                   opens, content, timer, results, returned, success, memoryLeak,
                   failCount, verdict, exitCode, raised, sigs, steps, termed,
                   handled>>

\* A process writes "Memory leak detected" to its output.
EmitLeak(r) ==
    /\ pc # "exited"
    /\ child[r].alive
    /\ ~content[Basename(r)]
    /\ content' = [content EXCEPT ![Basename(r)] = TRUE]
    /\ UNCHANGED <<waitStatus, reent, pc, k, bi, ti, hdepth, proc, child, sinkOf, outputFiles,
                   outputPaths, opens, timer, results, returned, success, memoryLeak,
                   failCount, verdict, exitCode, raised, sigs, steps, termed,
                   handled>>

----
\* The result aggregation at the end of the module.

\* Faulty variant: the file is left open.
LeftOpen(files, b) == files

\* outputFiles once f.close() has run on the file of basename b.
Closed(files, b) == [files EXCEPT ![b] = "closed"]

\* for p, f in outputFiles.items(): f.close()
AgClose ==
    /\ pc = "ag_close"
    /\ ti <= Len(outputPaths)
    /\ outputFiles' = Closed(outputFiles, outputPaths[ti])
    /\ ti' = ti + 1
    /\ UNCHANGED <<waitStatus, reent, pc, k, bi, hdepth, proc, child, sinkOf, outputPaths, opens,
                   content, timer, results, returned, success, memoryLeak, failCount,
                   verdict, exitCode, raised, sigs, steps, termed, handled>>

AgCloseDone ==
    /\ pc = "ag_close"
    /\ ti > Len(outputPaths)
    /\ pc' = "ag_scan"
    /\ ti' = 1
    /\ UNCHANGED <<waitStatus, reent, k, bi, hdepth, proc, child, sinkOf, outputFiles, outputPaths,
                   opens, content, timer, results, returned, success, memoryLeak,
                   failCount, verdict, exitCode, raised, sigs, steps, termed,
                   handled>>

\* One file of outputPaths is read for the marker.
AgScan ==
    /\ pc = "ag_scan"
    /\ ti <= Len(outputPaths)
    /\ memoryLeak' = (memoryLeak \/ content[outputPaths[ti]])
    /\ ti' = ti + 1
    /\ UNCHANGED <<waitStatus, reent, pc, k, bi, hdepth, proc, child, sinkOf, outputFiles,
                   outputPaths, opens, content, timer, results, returned, success,
                   failCount, verdict, exitCode, raised, sigs, steps, termed,
                   handled>>

AgScanDone ==
    /\ pc = "ag_scan"
    /\ ti > Len(outputPaths)
    /\ pc' = "ag_count"
    /\ UNCHANGED <<waitStatus, reent, k, bi, ti, hdepth, proc, child, sinkOf, outputFiles,
                   outputPaths, opens, content, timer, results, returned, success,
                   memoryLeak, failCount, verdict, exitCode, raised, sigs,
                   steps, termed, handled>>

\* failCount after the loop over results.
CountFailures(rs) == Cardinality({i \in 1..Len(rs) : ~rs[i][2]})

AgCount ==
    /\ pc = "ag_count"
    /\ failCount' = CountFailures(results)
    /\ pc' = "ag_verdict"
    /\ UNCHANGED <<waitStatus, reent, k, bi, ti, hdepth, proc, child, sinkOf, outputFiles,
                   outputPaths, opens, content, timer, results, returned, success,
                   memoryLeak, verdict, exitCode, raised, sigs, steps, termed,
                   handled>>

\* Faulty variant: the leak flag is not looked at.
VerdictIgnoringLeaks(fc, ml) == IF fc > 0 THEN "FAIL_TESTS" ELSE "PASS"

\* Faulty variant: the leak flag is looked at before the failure count.
VerdictLeakFirst(fc, ml) ==
    IF ml THEN "FAIL_LEAKS" ELSE IF fc > 0 THEN "FAIL_TESTS" ELSE "PASS"

\* The branch of the final if / else that prints the summary.
Verdict(fc, ml) ==
    IF fc > 0 THEN "FAIL_TESTS" ELSE IF ml THEN "FAIL_LEAKS" ELSE "PASS"

\* The summary is printed; both FAIL branches end in sys.exit(1), the PASS
\* branch runs off the end of the module.
AgVerdict ==
    /\ pc = "ag_verdict"
    /\ verdict' = Verdict(failCount, memoryLeak)
    /\ exitCode' = IF verdict' = "PASS" THEN 0 ELSE 1
    /\ raised' = IF verdict' = "PASS" THEN raised ELSE "SystemExit"
    /\ pc' = IF TimerAlive THEN "shutdown" ELSE "exited"
    /\ UNCHANGED <<waitStatus, reent, k, bi, ti, hdepth, proc, child, sinkOf, outputFiles,
                   outputPaths, opens, content, timer, results, returned, success,
                   memoryLeak, failCount, sigs, steps, termed, handled>>

----
\* Every step but the return of a body.
Others ==
    \/ RunTestEntry
    \/ RtClear
    \/ RtStart
    \/ RtBody
    \/ Spawn
    \/ SpawnFails
    \/ Register
    \/ Wait
    \/ Del
    \/ RtCancel
    \/ TaTerminate
    \/ TaTerminateFails
    \/ TaSleep
    \/ TaKill
    \/ TaKillFails
    \/ TaClear
    \/ RtAppend
    \/ HExit
    \/ Signal
    \/ Timeout
    \/ \E r \in Role : ChildExit(r)
    \/ \E r \in Role : EmitLeak(r)
    \/ AgClose
    \/ AgCloseDone
    \/ AgScan
    \/ AgScanDone
    \/ AgCount
    \/ AgVerdict

Next == Return \/ Others

NextAnyBody == ReturnAny \/ WaitUnknown \/ Others

\* The module as written.
Spec == Init /\ [][Next]_vars

\* runTest and the result aggregation driven with bodies of either outcome,
\* and with bodies that wait for a reader the registry does not hold.
SpecAnyBody == Init /\ [][NextAnyBody]_vars

\* The steps of the main thread, which runs whenever it is not blocked.
MainThread ==
    \/ RunTestEntry \/ RtClear \/ RtStart \/ RtBody \/ Spawn \/ SpawnFails
    \/ Register \/ Wait \/ Del \/ Return \/ RtCancel \/ TaTerminate
    \/ TaTerminateFails \/ TaSleep \/ TaKill \/ TaKillFails \/ TaClear
    \/ RtAppend \/ HExit \/ AgClose \/ AgCloseDone \/ AgScan \/ AgScanDone
    \/ AgCount \/ AgVerdict

\* The module as written, the main thread and the timer thread being
\* scheduled: the main thread takes its next step unless blocked in wait(),
\* and the delay of a started timer that is not cancelled eventually passes.
FairSpec == Spec /\ WF_vars(MainThread) /\ WF_vars(Timeout)

----
\* Helpers of the properties.

IsPrefix(s, t) == Len(s) <= Len(t) /\ \A i \in 1..Len(s) : s[i] = t[i]

\* The steps of one runTest call, in the order of its lines.
RunTestOrder == <<"clear", "arm", "body", "cancel", "terminateAll", "append">>

\* Positions of the main thread inside body().
BodyPcs == {"sp", "reg", "wait", "del", "ret"}

\* Positions inside terminateAll.
TaPcs == {"ta_term", "ta_kill"}

\* Positions of the abnormal path.
AbortPcs == TaPcs \cup {"h_exit", "shutdown", "exited"}

AllPassed == \A i \in 1..Len(results) : results[i][2]

SomeLeak == \E b \in Keys(outputPaths) : content[b]

----
\* C1: a run that goes through the result aggregation ends with PASS and
\* exit status 0 exactly when no recorded result is a failure and no log file
\* holds the leak marker; otherwise it ends with a FAIL verdict and status 1.
C1_VerdictIffCleanRun ==
    (pc = "exited" /\ hdepth = 0 /\ Len(results) = NumScenarios) =>
        /\ verdict # "none"
        /\ (verdict = "PASS" /\ exitCode = 0) <=> (AllPassed /\ ~SomeLeak)
        /\ verdict # "PASS" =>
              verdict \in {"FAIL_TESTS", "FAIL_LEAKS"} /\ exitCode = 1

C1_Witness ==
    /\ pc = "exited"
    /\ verdict = "PASS"
    /\ exitCode = 0
    /\ Len(results) = NumScenarios

\* C2: when the timer of scenario j fires and the body of scenario j has not
\* returned, the handler (so terminateAll) has been entered, the body never
\* returns, no result is recorded for scenario j, no verdict is produced and
\* the run can only end with status 1.
C2_WatchdogAbortsRun ==
    \A j \in Scenarios :
        (timer[j] = "fired" /\ Len(returned) < j) =>
            /\ hdepth >= 1
            /\ pc \in AbortPcs
            /\ Len(results) < j
            /\ verdict = "none"
            /\ exitCode \in {-1, 1}
            /\ pc = "exited" => exitCode = 1

\* C2, with its end: such a run does reach its exit, with status 1.
C2_WatchdogAbortsAndEnds ==
    /\ []C2_WatchdogAbortsRun
    /\ \A j \in Scenarios :
          (timer[j] = "fired" /\ Len(returned) < j)
              ~> (pc = "exited" /\ exitCode = 1 /\ Len(results) < j)

\* The timer has just fired while the body was blocked in wait() on a reader
\* that has not exited.
C2_Witness ==
    /\ k \in Scenarios
    /\ timer[k] = "fired"
    /\ hdepth = 1
    /\ sigs = 0
    /\ pc = "ta_term"
    /\ ti = 1
    /\ Keys(proc) = Role
    /\ child[Awaited].alive
    /\ Len(returned) < k

\* C3: a signal from outside and a fired timer start the same path (the
\* first line of the handler's terminateAll); once it has started the main
\* thread is never again in runTest, a body or the aggregation, no result is
\* appended, no scenario started, no process spawned, no verdict produced,
\* and the run ends with status 1.
C3_AbnormalPathIsFinal ==
    /\ [][hdepth' > hdepth =>
            /\ hdepth' = hdepth + 1
            /\ pc' = "ta_term" /\ ti' = 1 /\ termed' = {}
            /\ proc' = proc /\ child' = child]_vars
    /\ [][hdepth >= 1 =>
            /\ pc' \in AbortPcs
            /\ results' = results
            /\ k' = k
            /\ verdict' = "none"
            /\ opens' = opens
            /\ \A r \in Role : child'[r].alive => child[r].alive
            /\ pc' = "h_exit" => pc \in TaPcs \cup {"h_exit"}
            /\ exitCode' \in {-1, 1}
            /\ pc' = "exited" => exitCode' = 1]_vars

\* A signal from outside has ended the run while scenarios remained.
C3_Witness ==
    /\ pc = "exited"
    /\ sigs = 1
    /\ \A j \in Scenarios : timer[j] # "fired"
    /\ exitCode = 1
    /\ k < NumScenarios
    /\ Len(results) < k

\* C4: a terminate() or kill() the OS refuses never leaves terminateAll nor
\* ends the run, and terminateAll returns to its caller with an empty registry.
C4_TerminationErrorNeverPropagates ==
    /\ raised # "TerminationError"
    /\ pc \in {"rt_append", "h_exit"} => proc = <<>>

\* Requests sent to a role's process so far.
Requests(c, r) == c[r].termReq + c[r].killReq

\* C5: a terminateAll call on an empty registry sends no request and raises
\* nothing, and no request is ever sent to a process that a completed
\* terminateAll call has already covered.
C5_TerminateAllIdempotent ==
    /\ [][(pc \in TaPcs /\ proc = <<>>) =>
            /\ \A r \in Role : Requests(child', r) = Requests(child, r)
            /\ raised' = raised
            /\ exitCode' = exitCode]_vars
    /\ [][\A r \in Role :
            Requests(child', r) > Requests(child, r) => r \notin handled]_vars

\* The handler's terminateAll has run right after runTest's own call returned:
\* it sent nothing and is about to exit.
C5_Witness ==
    /\ pc = "h_exit"
    /\ hdepth = 1
    /\ steps = SubSeq(RunTestOrder, 1, 5)
    /\ termed = {}
    /\ handled = {"skald", "writer"}
    /\ child["skald"].termReq = 1

\* C6: in one terminateAll call every registered process has been sent
\* terminate() before any kill() is sent, the registry does not change during
\* the call, and a polled process is sent kill() exactly when it is still alive.
C6_TerminateBeforeKill ==
    /\ [][(pc \in TaPcs /\ pc' \in TaPcs /\ hdepth' = hdepth) =>
            proc' = proc]_vars
    /\ [][\A r \in Role :
            child'[r].killReq > child[r].killReq =>
                /\ r \in Keys(proc)
                /\ Keys(proc) \subseteq termed
                /\ child[r].alive]_vars
    /\ [][(pc = "ta_kill" /\ ti <= Len(proc) /\ ti' = ti + 1
           /\ hdepth' = hdepth) =>
            (child'[proc[ti]].killReq = child[proc[ti]].killReq + 1
                <=> child[proc[ti]].alive)]_vars
    /\ [](pc = "ta_kill" => termed = Keys(proc))

\* A call has returned after killing the broker, while the writer, which had
\* exited in the grace interval, got no kill.
C6_Witness ==
    /\ pc = "rt_append"
    /\ child["skald"].termReq = 1
    /\ child["skald"].killReq = 1
    /\ child["writer"].termReq = 1
    /\ child["writer"].killReq = 0

\* C7: the registry is empty when a body begins and when a result is
\* appended; at the append every role the scenario started is dead, and every
\* role it did not wait on was covered by terminateAll.
C7_RegistryEmptyBetweenScenarios ==
    /\ (hdepth = 0 /\ pc \in {"rt_start", "rt_body"}) => proc = <<>>
    /\ (hdepth = 0 /\ pc = "sp" /\ bi = 1) => proc = <<>>
    /\ pc = "rt_append" =>
          /\ proc = <<>>
          /\ \A r \in Role : child[r].spawned /\ ~child[r].alive
          /\ \A r \in Role \ {Awaited} :
                child[r].termReq >= 1 /\ r \in handled
    /\ (hdepth = 0 /\ pc \in {"call", "rt_clear"}) =>
          (proc = <<>> /\ \A r \in Role : ~child[r].alive)

\* The broker outlived the wait of the second scenario and was killed before
\* the result is appended.
C7_Witness ==
    /\ pc = "rt_append"
    /\ k = 2
    /\ child["skald"].killReq = 1
    /\ proc = <<>>

\* C8: the steps of a scenario happen in the order clear, arm, body, cancel,
\* terminateAll, append, none skipped or repeated; the timer is started during
\* the whole body; a result is appended exactly when all six steps are done.
C8_RunTestStepOrder ==
    /\ IsPrefix(steps, RunTestOrder)
    /\ (hdepth = 0 /\ pc \in BodyPcs) => timer[k] = "started"
    /\ k >= 1 => (Len(results) = k <=> steps = RunTestOrder)
    /\ Len(results) \in {k - 1, k} \cup {0}
    /\ (hdepth = 0 /\ pc = "rt_append") => timer[k] \in {"cancelled"}

C8_Witness ==
    /\ steps = RunTestOrder
    /\ k = NumScenarios
    /\ hdepth = 0
    /\ pc = "ag_close"

\* C9: the results are, in order, one (description, value returned) pair per
\* completed scenario; a body returning False is recorded as such and the
\* next scenario still runs.
C9_ResultsInRunOrder ==
    /\ Len(results) <= Len(returned)
    /\ Len(returned) <= Len(results) + 1
    /\ \A i \in 1..Len(results) : results[i] = <<Description[i], returned[i]>>
    /\ (hdepth = 0 /\ pc \in {"call", "ag_close", "ag_scan", "ag_count",
                              "ag_verdict"}) => Len(results) = k
    /\ (hdepth = 0 /\ pc \notin {"call", "ag_close", "ag_scan", "ag_count",
                                 "ag_verdict", "exited", "shutdown"})
          => Len(results) = k - 1

\* A scenario was recorded as failed and the following scenarios ran.
C9_Witness ==
    /\ Len(results) = NumScenarios
    /\ ~results[1][2]
    /\ results[2][2]
    /\ ~results[3][2]
    /\ pc = "ag_close"

\* C10: each basename has at most one log file opening in the whole run, made
\* by its first spawn; every process spawned writes to that first opening,
\* which is open at the time of the spawn.
C10_OneSinkPerBasename ==
    /\ \A b \in Base :
          /\ opens[b] <= 1
          /\ opens[b] = 1 <=> outputFiles[b] # "none"
          /\ opens[b] = 1 <=> b \in Keys(outputPaths)
    /\ \A i, j \in 1..Len(outputPaths) :
          outputPaths[i] = outputPaths[j] => i = j
    /\ \A r \in Role :
          child[r].spawned => (sinkOf[r] = 1 /\ opens[Basename(r)] = 1)
    /\ pc = "reg" => outputFiles[Basename(SpawnOrder[bi])] = "open"

\* A role has been spawned again in a later scenario, onto the sink its
\* first spawn opened.
C10_Witness ==
    /\ pc = "reg"
    /\ k = 3
    /\ bi = 2
    /\ child["reader"].alive
    /\ sinkOf["reader"] = 1
    /\ opens["reader"] = 1

\* Positions of the result aggregation after the closing loop.
AfterClosePcs == {"ag_scan", "ag_count", "ag_verdict"}

\* C11: a log file is closed only by the closing loop at the end of the
\* module, from the open state, after the last runTest has returned with the
\* registry empty; once closed it stays closed; the scan starts only when
\* every file created is closed; and a spawn always writes to an open file.
C11_SinksClosedOnceAtRunEnd ==
    /\ [][\A b \in Base :
            (outputFiles'[b] = "closed" /\ outputFiles[b] # "closed") =>
                /\ outputFiles[b] = "open"
                /\ pc = "ag_close"
                /\ hdepth = 0
                /\ Len(results) = NumScenarios
                /\ steps = RunTestOrder
                /\ proc = <<>>]_vars
    /\ [][\A b \in Base :
            outputFiles[b] = "closed" => outputFiles'[b] = "closed"]_vars
    /\ [][(pc = "sp" /\ pc' = "reg") =>
            outputFiles'[Basename(SpawnOrder[bi])] = "open"]_vars
    /\ []((pc \in AfterClosePcs \/ verdict # "none") =>
            /\ Keys(outputPaths) = Base
            /\ \A b \in Keys(outputPaths) : outputFiles[b] = "closed")
    /\ []((\E b \in Base : outputFiles[b] = "closed") =>
            (Len(results) = NumScenarios /\ \A r \in Role : ~child[r].alive))

\* The scan is at its second file, every log file closed.
C11_Witness ==
    /\ pc = "ag_scan"
    /\ ti = 2
    /\ \A b \in Base : outputFiles[b] = "closed"

\* C12: when a signal has arrived while a terminateAll call (of runTest or of
\* an earlier handler) was in progress, the main thread never returns to the
\* primary flow, and the run ends with an empty registry and status 1, no
\* terminateAll having raised anything (the handler's SystemExit ends it).
C12_ReentrySafe ==
    reent =>
        /\ pc \in AbortPcs
        /\ pc = "exited" =>
              /\ proc = <<>>
              /\ exitCode = 1
              /\ raised = "SystemExit"

\* C13: a scenario is about to be recorded as a success only if the process
\* its body waited on exited with status 0.
C13_SuccessOnlyOnCleanExit ==
    (pc = "rt_append" /\ success) => waitStatus = 0

----
\* The position of key in the dict d (0 when absent).
IndexOf(d, key) == IF key \in Keys(d) THEN CHOOSE i \in 1..Len(d) : d[i] = key ELSE 0

\* C14: waiting for a role returns only once that role's process has exited,
\* and the deletion that follows removes that role's entry and leaves the other
\* entries and their order as they were; waiting for a role the registry does
\* not hold raises an unknown-key error that ends the run with exit status 1,
\* without a result for the scenario and without a verdict.
C14_WaitRemovesOnlyAwaited ==
    /\ [][(pc = "wait" /\ pc' = "del") =>
            /\ Awaited \in Keys(proc)
            /\ ~child[Awaited].alive
            /\ proc' = proc]_vars
    /\ [][(pc = "del" /\ pc' = "ret") =>
            /\ Keys(proc') = Keys(proc) \ {Awaited}
            /\ Len(proc') = Len(proc) - 1
            /\ \A i \in 1..Len(proc') :
                 proc'[i] = IF i < IndexOf(proc, Awaited) THEN proc[i] ELSE proc[i + 1]
            /\ child' = child]_vars
    /\ [][(raised' = "KeyError" /\ raised = "none") =>
            /\ Awaited \notin Keys(proc)
            /\ pc' \in {"shutdown", "exited"}]_vars
    /\ [](raised = "KeyError" =>
            /\ pc \in AbortPcs
            /\ exitCode = 1
            /\ verdict = "none"
            /\ Len(results) = k - 1)

\* The reader was awaited and its entry deleted, the other two entries are
\* still there, and a second wait for the reader has ended the main thread.
C14_Witness == raised = "KeyError" /\ pc = "shutdown" /\ proc = <<"skald", "writer">>

----
----
\* C16: once subprocess.Popen has raised in spawn, the run is on its way out
\* with exit status 1: the scenario in progress gets no result, no later
\* scenario starts, and no verdict is printed.
C16_SpawnFailureIsFatal ==
    /\ [](raised = "SpawnError" =>
            /\ pc \in AbortPcs
            /\ exitCode = 1
            /\ verdict = "none"
            /\ k \in Scenarios
            /\ Len(results) = k - 1)
    /\ [][raised = "SpawnError" => (k' = k /\ results' = results /\ verdict' = verdict
                                     /\ exitCode' = exitCode)]_vars
    /\ [][(raised' = "SpawnError" /\ raised = "none") => pc = "sp"]_vars

\* Popen raised in the second scenario of four: the run has ended with the
\* first scenario's result only.
C16_Witness == pc = "exited" /\ raised = "SpawnError" /\ k = 2 /\ Len(results) = 1

----
\* C17: the summary printed tells the two causes of FAIL apart: "passed, but
\* with memory leaks" exactly when every recorded result is a success and some
\* log file holds the leak marker; "tests failed" exactly when some recorded
\* result is a failure, with or without a leak, and then with the number of
\* failed results; both end the run with exit status 1.
C17_SummaryTellsCausesApart ==
    verdict # "none" =>
        /\ (verdict = "FAIL_LEAKS") <=> (AllPassed /\ SomeLeak)
        /\ (verdict = "FAIL_TESTS") <=> (\E i \in 1..Len(results) : ~results[i][2])
        /\ verdict = "FAIL_TESTS" =>
              /\ failCount = Cardinality({i \in 1..Len(results) : results[i][2] = FALSE})
              /\ failCount >= 1
        /\ verdict \in {"FAIL_LEAKS", "FAIL_TESTS"} => (exitCode = 1 /\ raised = "SystemExit")
        /\ memoryLeak = SomeLeak

\* Two scenarios failed and a log file holds the leak marker: the summary is
\* the one of failed tests.
C17_Witness ==
    /\ pc = "exited"
    /\ verdict = "FAIL_TESTS"
    /\ failCount = 2
    /\ memoryLeak
    /\ exitCode = 1

----
\* C18: when the run ends through the signal handler, whose terminateAll ran
\* to its end, no process that was spawned is still running without having
\* been sent a termination request.
C18_NoProcessEscapesHandler ==
    (pc = "exited" /\ hdepth >= 1 /\ raised = "SystemExit") =>
        \A r \in Role : (child[r].spawned /\ child[r].alive) => child[r].termReq >= 1

----
\* C19: with the main thread running whenever it can and a started timer
\* firing unless it is cancelled, the run ends whatever the child processes
\* do, a reader that never exits included: a scenario blocked in wait() is
\* left, and the run ends either with a verdict over all the scenarios or
\* without a verdict and with exit status 1.
C19_RunAlwaysEnds ==
    /\ <>(pc = "exited")
    /\ (pc = "wait") ~> (pc # "wait")
    /\ [](pc = "exited" =>
            \/ verdict # "none" /\ Len(results) = NumScenarios
            \/ verdict = "none" /\ exitCode = 1)

\* The reader never exited by itself: the timer fired while the body was in
\* wait(), every registered process was terminated, the reader killed, and the
\* run has ended with exit status 1.
C19_Witness ==
    /\ k \in Scenarios
    /\ pc = "exited"
    /\ sigs = 0
    /\ timer[k] = "fired"
    /\ child["writer"].termReq >= 1
    /\ child[Awaited].killReq >= 1
    /\ hdepth = 1
    /\ raised = "SystemExit"
    /\ exitCode = 1

----
\* C20: once a body has ended by raising (Popen failing in spawn, or a wait
\* for a reader the registry does not hold), the timer started for its
\* scenario is not running any more and never fires, and no registered
\* process is left without a termination request.
C20_RaisingBodyReleasesScenario ==
    /\ [](raised \in {"SpawnError", "KeyError"} =>
            /\ \A j \in Scenarios : timer[j] \notin {"started", "fired"}
            /\ \A i \in 1..Len(proc) : child[proc[i]].termReq >= 1)
    /\ [][\A j \in Scenarios : (timer'[j] = "fired" /\ timer[j] # "fired") =>
            raised = "none"]_vars

====
